---- MODULE Spec2Model ----
(***************************************************************************)
(* nanorpc-http: the signed single-endpoint RPC server.                    *)
(*                                                                         *)
(* The model follows the middleware chain that express runs for a parsed   *)
(* request (src/src/server.ts): the signature middleware, the              *)
(* POST /nanorpcs/:method route and the 404 fallback, together with the    *)
(* Method Registry of src/src/index.ts (on).  A request of the model is a  *)
(* request as express hands it to the signature middleware: verb, path and *)
(* parsed body (cors() and the body parsers have already run).             *)
(*                                                                         *)
(* JavaScript strings are sequences of one-character strings, so that the  *)
(* canonical payload, its sort and its join are computed, not assumed.     *)
(*                                                                         *)
(* The envelope field holding the parsed argument array is written as      *)
(* `arguments` by the route (server.ts) and read as `params` by the        *)
(* wrapper on() stores (index.ts); the model has one field, params.        *)
(*                                                                         *)
(* createExpress(secret, validators, methods, queued), which index.ts      *)
(* calls, is not among the sources: the chain is the one of server.ts, and *)
(* the Execution Serializer that queued = true enables is modelled from    *)
(* the design document (one FIFO lock around each handler call, released   *)
(* when the call returns or fails).                                        *)
(*                                                                         *)
(* The variable last records what the latest step completed (a request     *)
(* with its reply, or an on() call); the step Forget clears it.            *)
(***************************************************************************)
EXTENDS Integers, Sequences, FiniteSets, TLC

(***************************************************************************)
(* Bounds of the model.                                                    *)
(***************************************************************************)
\* Number of requests that can be in flight (dispatched, not yet replied).
MaxInFlight == 3

\* The server-observed time (Date.now()) of the modelled instant, in ms.
Now == 200000

(***************************************************************************)
(* JavaScript values of a parsed body.                                     *)
(***************************************************************************)
Undef == [t |-> "undef", v |-> <<>>]
Num(n) == [t |-> "num", v |-> n]
Str(s) == [t |-> "str", v |-> s]
Arr(a) == [t |-> "arr", v |-> a]
Bool(b) == [t |-> "bool", v |-> b]
NaNValue == [t |-> "nan", v |-> <<>>]

\* R.isNil
IsNil(x) == x.t = "undef"

Digit(d) == <<"0", "1", "2", "3", "4", "5", "6", "7", "8", "9">>[d + 1]

\* Number.prototype.toString for a non-negative integer: its decimal digits.
RECURSIVE Decimal(_)
Decimal(n) == IF n < 10 THEN <<Digit(n)>> ELSE Decimal(n \div 10) \o <<Digit(n % 10)>>

RECURSIVE JoinWith(_, _)
JoinWith(sep, strs) ==
  IF strs = <<>> THEN <<>>
  ELSE IF Len(strs) = 1 THEN strs[1]
  ELSE strs[1] \o sep \o JoinWith(sep, Tail(strs))

\* The template literal `${value}`: String(value).
RECURSIVE Render(_)
Render(x) ==
  CASE x.t = "num" -> Decimal(x.v)
    [] x.t = "str" -> x.v
    [] x.t = "bool" -> IF x.v THEN <<"t", "r", "u", "e">> ELSE <<"f", "a", "l", "s", "e">>
    [] x.t = "arr" -> JoinWith(<<",">>, [i \in 1..Len(x.v) |-> Render(x.v[i])])
    [] OTHER -> <<"u", "n", "d", "e", "f", "i", "n", "e", "d">>

(***************************************************************************)
(* A body is the sequence of its (key, value) pairs in insertion order.    *)
(***************************************************************************)
HasKey(body, key) == \E i \in 1..Len(body) : body[i][1] = key

\* req.body[key]
Get(body, key) ==
  IF HasKey(body, key)
  THEN body[CHOOSE i \in 1..Len(body) : body[i][1] = key][2]
  ELSE Undef

RECURSIVE Dissoc(_, _)
\* R.dissoc(key, body)
Dissoc(key, body) ==
  IF body = <<>> THEN <<>>
  ELSE IF body[1][1] = key THEN Dissoc(key, Tail(body))
  ELSE <<body[1]>> \o Dissoc(key, Tail(body))

(***************************************************************************)
(* String.prototype.localeCompare on the characters the model uses.  The   *)
(* collation puts the line feed first, then punctuation, symbols, digits   *)
(* and letters; an accent only counts between strings whose letters are    *)
(* the same, and canonically equivalent strings compare as equal.          *)
(***************************************************************************)
\* U+0301, the combining acute accent, and U+00E9, the letter e with acute
\* as one code point.
Acute == "U+0301"
EAcute == "U+00E9"

Collation ==
  <<"\n", ",", "=", "0", "1", "2", "3", "4", "5", "6", "7", "8", "9",
    "a", "b", "c", "d", "e", "f", "g", "h", "i", "j", "k", "l", "m",
    "n", "o", "p", "q", "r", "s", "t", "u", "v", "w", "x", "y", "z", Acute>>

CharRank(c) == CHOOSE i \in 1..Len(Collation) : Collation[i] = c

RECURSIVE Decompose(_)
Decompose(s) ==
  IF s = <<>> THEN <<>>
  ELSE (IF s[1] = EAcute THEN <<"e", Acute>> ELSE <<s[1]>>) \o Decompose(Tail(s))

\* The canonical decomposition of a string.
Nfd(s) == IF \E i \in 1..Len(s) : s[i] = EAcute THEN Decompose(s) ELSE s

IsBase(c) == c /= Acute

\* The letters of a decomposed string, without its accents.
Base(s) == IF \E i \in 1..Len(s) : s[i] = Acute THEN SelectSeq(s, IsBase) ELSE s

RECURSIVE CompareFrom(_, _, _)
CompareFrom(a, b, i) ==
  IF i > Len(a) /\ i > Len(b) THEN 0
  ELSE IF i > Len(a) THEN -1
  ELSE IF i > Len(b) THEN 1
  ELSE IF a[i] = b[i] THEN CompareFrom(a, b, i + 1)
  ELSE IF CharRank(a[i]) < CharRank(b[i]) THEN -1
  ELSE 1

\* The order of two strings by the ranks of their characters.
CompareRanks(a, b) == CompareFrom(a, b, 1)

\* a.localeCompare(b): the letters first, the accents when the letters tie.
LocaleCompare(a, b) ==
  LET primary == CompareRanks(Base(Nfd(a)), Base(Nfd(b)))
  IN IF primary /= 0 THEN primary ELSE CompareRanks(Nfd(a), Nfd(b))

\* R.comparator((a, b) => a.localeCompare(b) < 0)
Comparator(a, b) ==
  IF LocaleCompare(a, b) < 0 THEN -1
  ELSE IF LocaleCompare(b, a) < 0 THEN 1
  ELSE 0

RECURSIVE Insert(_, _)
Insert(x, sorted) ==
  IF sorted = <<>> THEN <<x>>
  ELSE IF Comparator(x, sorted[1]) < 0 THEN <<x>> \o sorted
  ELSE <<sorted[1]>> \o Insert(x, Tail(sorted))

RECURSIVE SortStrings(_)
\* R.sort(comparator, list): a stable sort.
SortStrings(strs) ==
  IF strs = <<>> THEN <<>>
  ELSE Insert(strs[Len(strs)], SortStrings(SubSeq(strs, 1, Len(strs) - 1)))

\* The characters of a field name.
KeyName(key) ==
  CASE key = "id" -> <<"i", "d">>
    [] key = "arguments" -> <<"a", "r", "g", "u", "m", "e", "n", "t", "s">>
    [] key = "timestamp" -> <<"t", "i", "m", "e", "s", "t", "a", "m", "p">>
    [] key = "sign" -> <<"s", "i", "g", "n">>
    [] key = "e-acute" -> <<EAcute>>
    [] key = "e+acute" -> <<"e", Acute>>

\* The canonical payload of a body: `key=value` of every field but sign,
\* sorted and joined with line feeds.
Payload(body) ==
  LET pairs == Dissoc("sign", body)
      params == [i \in 1..Len(pairs) |-> KeyName(pairs[i][1]) \o <<"=">> \o Render(pairs[i][2])]
  IN JoinWith(<<"\n">>, SortStrings(params))

(***************************************************************************)
(* crypto.createHmac("sha256", key).update(msg).digest().toString("hex"):  *)
(* an ideal keyed hash, one distinct digest for every (key, message).      *)
(***************************************************************************)
Hmac(key, msg) == <<"#">> \o key \o <<"#">> \o msg

\* The shared secret the server was constructed with, and another one.
Secret == <<"k">>
WrongSecret == <<"x">>

\* The signature the server recomputes for a body.
Signature(secret, body) == Hmac(secret, Payload(body) \o <<"\n">> \o secret)

\* match(value).with(P.string, R.identity).otherwise(() => undefined)
MatchString(x) == IF x.t = "str" THEN x ELSE Undef

\* match(req.body.id).with(P.number, R.toString).with(P.string, R.identity)
MatchId(x) ==
  IF x.t = "num" THEN Str(Decimal(x.v))
  ELSE IF x.t = "str" THEN x
  ELSE Undef

\* match(req.body.arguments).with(P.array(P.any), R.identity)
MatchArray(x) == IF x.t = "arr" THEN x ELSE Undef

IsDigit(c) == c \in {"0", "1", "2", "3", "4", "5", "6", "7", "8", "9"}
DigitValue(c) == CHOOSE d \in 0..9 : Digit(d) = c

RECURSIVE DigitsPrefix(_)
DigitsPrefix(s) ==
  IF s = <<>> \/ ~IsDigit(s[1]) THEN <<>> ELSE <<s[1]>> \o DigitsPrefix(Tail(s))

RECURSIVE DigitsValue(_)
DigitsValue(ds) ==
  IF ds = <<>> THEN 0 ELSE 10 * DigitsValue(SubSeq(ds, 1, Len(ds) - 1)) + DigitValue(ds[Len(ds)])

\* parseInt(string): the leading decimal digits, NaN when there are none.
ParseInt(s) ==
  IF DigitsPrefix(s) = <<>> THEN NaNValue ELSE Num(DigitsValue(DigitsPrefix(s)))

\* match(req.body.timestamp).with(P.number, R.identity).with(P.string, parseInt)
MatchTimestamp(x) ==
  IF x.t = "num" THEN x
  ELSE IF x.t = "str" THEN ParseInt(x.v)
  ELSE Undef

\* isNaN
IsNaN(x) == x.t = "nan"

(***************************************************************************)
(* Requests and replies.                                                   *)
(***************************************************************************)
\* The method names requests and registrations use.  Every object created by
\* {} inherits toString from Object.prototype.
MethodNames == {"add", "slow", "toString"}
ProtoNames == {"toString"}

\* The user functions an embedder registers: add returns a + b, boom throws
\* the string "boom", slow returns a promise of a + b.
UserFuncs == {"add", "boom", "slow"}
NoFunc == "undefined"
\* Object.prototype.toString, found through the prototype chain.
ProtoToString == "Object.prototype.toString"

\* res.status(status).json({ code, error: { name, message } })
ErrorReply(status, name, message) ==
  [status |-> status, code |-> status, name |-> name, message |-> message,
   data |-> <<>>]

\* createNanoReply(id, status, message, data)
createNanoReply(id, status, message, data) ==
  [id |-> id, status |-> status, message |-> message, data |-> data]

\* res.json({ code: 200, data: reply }): the default status of express is 200.
SuccessReply(reply) ==
  [status |-> 200, code |-> 200, name |-> "", message |-> "", data |-> <<reply>>]

\* A route that matches every verb, as app.all would.
RouteMatchesAnyVerb(req) == req.nanorpcs

\* app.post("/nanorpcs/:method", ...) matches the request.
RouteMatches(req) == req.verb = "POST" /\ req.nanorpcs

(***************************************************************************)
(* The Method Registry: this.methods, an object created by {}.             *)
(***************************************************************************)
\* method in this.methods
In(method, methods) == methods[method] /= NoFunc \/ method \in ProtoNames

\* this.methods[method]
Lookup(methods, method) ==
  IF methods[method] /= NoFunc THEN methods[method]
  ELSE IF method \in ProtoNames THEN ProtoToString
  ELSE NoFunc

(***************************************************************************)
(* Handlers.                                                               *)
(***************************************************************************)
\* The wrapper on() stores: the params the user function is called with.
WrapperArgs(params) ==
  IF params.t = "arr" THEN params.v
  ELSE IF \/ params.t \in {"undef", "nan"}
          \/ (params.t = "num" /\ params.v = 0)
          \/ (params.t = "str" /\ params.v = <<>>)
          \/ (params.t = "bool" /\ ~params.v) THEN <<>>
  ELSE <<params>>

\* a + b for the arguments of the model: numbers, or missing (undefined).
Add(args) ==
  IF Len(args) >= 2 /\ args[1].t = "num" /\ args[2].t = "num"
  THEN Num(args[1].v + args[2].v)
  ELSE NaNValue

\* A promise object, as a value.
PromiseValue == [t |-> "promise", v |-> <<>>]

\* The values a handler throws or rejects with: string is String(value),
\* message its message property when it is an Error, code its code property
\* when it has one.
\* throw "boom"
ThrownString(text) ==
  [t |-> "string", isError |-> FALSE, message |-> "", string |-> text, code |-> <<>>]
\* throw new Error("failed")
ThrownError ==
  [t |-> "object", isError |-> TRUE, message |-> "failed", string |-> "Error: failed",
   code |-> <<>>]
\* throw {}
ThrownObject ==
  [t |-> "object", isError |-> FALSE, message |-> "", string |-> "[object Object]",
   code |-> <<>>]
\* throw new NanoRPCError(code, message): an Error that carries a code.
NanoRPCError(code, message) ==
  [t |-> "object", isError |-> TRUE, message |-> message,
   string |-> "NanoRPCError: add method already registered", code |-> <<code>>]

\* The handler call ended by throwing or rejecting with error.
Throw(error) == [kind |-> "throw", value |-> Undef, thrown |-> <<error>>]

\* What calling func(rpc) does at once: it returns a value, throws, or
\* returns a promise that settles later.
Call(func, rpc) ==
  CASE func = "add" -> [kind |-> "return", value |-> Add(WrapperArgs(rpc.params)), thrown |-> <<>>]
    [] func = "boom" -> Throw(ThrownString("boom"))
    [] func = "slow" -> [kind |-> "promise", value |-> PromiseValue, thrown |-> <<>>]
    [] func = ProtoToString ->
         [kind |-> "return", value |-> Str(<<"[object Undefined]">>), thrown |-> <<>>]

\* The ways the promise of slow settles: it resolves, or it rejects with a
\* string, an Error, another value, or a failure that carries a code.
Settlements(rpc) ==
  { [kind |-> "return", value |-> Add(WrapperArgs(rpc.params)), thrown |-> <<>>],
    Throw(ThrownString("boom")),
    Throw(ThrownError),
    Throw(ThrownObject),
    Throw(NanoRPCError(-1, "add method already registered")) }

\* A catch block that renders every failure with `${error}`.
ErrorMessageTemplateOnly(error) == error.string

\* typeof error === "string" ? error : error instanceof Error ? error.message : `${error}`
ErrorMessage(error) ==
  IF error.t = "string" THEN error.string
  ELSE IF error.isError THEN error.message
  ELSE error.string

\* A catch block that embeds the code a failure carries.
HandlerReplyWithFailureCode(id, outcome) ==
  IF outcome.kind = "throw"
  THEN [ErrorReply(417, "Expectation Failed", ErrorMessage(outcome.thrown[1]))
          EXCEPT !.code = IF outcome.thrown[1].code = <<>> THEN 417
                          ELSE outcome.thrown[1].code[1]]
  ELSE SuccessReply(createNanoReply(id, 0, "OK", outcome.value))

\* The reply the try/catch around the handler sends for a completed call.
HandlerReply(id, outcome) ==
  IF outcome.kind = "throw"
  THEN ErrorReply(417, "Expectation Failed", ErrorMessage(outcome.thrown[1]))
  ELSE SuccessReply(createNanoReply(id, 0, "OK", outcome.value))

(***************************************************************************)
(* The middleware chain for one request, up to the handler call.           *)
(***************************************************************************)
\* The schema the embedder declared for a method: two arguments.
SchemaAccepts(rpc) == Len(rpc.params.v) = 2

\* The signature middleware without the comparison of the digests.
SignatureCheckPresenceOnly(secret, body) ==
  IF IsNil(MatchString(Get(body, "sign")))
  THEN <<ErrorReply(400, "Bad Request", "Missing Signature")>>
  ELSE <<>>

\* The signature middleware: the reply it sends, or none when it calls next().
SignatureCheck(secret, body) ==
  LET sign == MatchString(Get(body, "sign"))
  IN IF IsNil(sign)
     THEN <<ErrorReply(400, "Bad Request", "Missing Signature")>>
     ELSE IF Signature(secret, body) /= sign.v
     THEN <<ErrorReply(400, "Bad Request", "Check Signature Failed")>>
     ELSE <<>>

\* A request answered before any handler call.
Answered(stages, reply) ==
  [stages |-> stages, reply |-> <<reply>>, rpc |-> <<>>, func |-> NoFunc]

\* A request that reached the handler call.
Dispatched(stages, rpc, func) ==
  [stages |-> stages, reply |-> <<>>, rpc |-> <<rpc>>, func |-> func]

\* The route POST /nanorpcs/:method up to the handler call.
RpcRoute(req, methods, validators) ==
  LET id == MatchId(Get(req.body, "id"))
      args == MatchArray(Get(req.body, "arguments"))
      timestamp == MatchTimestamp(Get(req.body, "timestamp"))
      rpc == [id |-> id, method |-> req.method, params |-> args, timestamp |-> timestamp]
      func == Lookup(methods, req.method)
  IN IF IsNil(id)
     THEN Answered(<<"signature", "id">>, ErrorReply(400, "Bad Request", "Missing ID"))
     ELSE IF IsNil(args)
     THEN Answered(<<"signature", "id", "arguments">>,
                   ErrorReply(400, "Bad Request", "Missing Arguments"))
     ELSE IF IsNil(timestamp) \/ IsNaN(timestamp)
     THEN Answered(<<"signature", "id", "arguments", "timestamp">>,
                   ErrorReply(400, "Bad Request", "Missing Timestamp"))
     ELSE IF req.method \in validators /\ ~SchemaAccepts(rpc)
     THEN Answered(<<"signature", "id", "arguments", "timestamp", "validator">>,
                   ErrorReply(406, "Not Acceptable", "minItems: /arguments, too few items"))
     ELSE IF func = NoFunc
     THEN Answered(<<"signature", "id", "arguments", "timestamp", "validator", "lookup">>,
                   ErrorReply(405, "Method Not Allowed", "Missing Method"))
     ELSE Dispatched(<<"signature", "id", "arguments", "timestamp", "validator", "lookup">>,
                     rpc, func)

\* The whole chain: signature middleware, then the route or the 404 fallback.
Pipeline(req, methods, validators) ==
  LET gate == SignatureCheck(Secret, req.body)
  IN IF gate /= <<>> THEN Answered(<<"signature">>, gate[1])
     ELSE IF RouteMatches(req) THEN RpcRoute(req, methods, validators)
     ELSE Answered(<<"signature", "fallback">>, ErrorReply(404, "Not Found", "Page Not Found"))

(***************************************************************************)
(* The requests of the model.  An option is <<>> (the field is absent) or  *)
(* <<value>>.                                                              *)
(***************************************************************************)
\* The freshness window of the specification, in ms.
Window == 60000

IdOptions == {<<>>, <<Num(42)>>, <<Str(<<"a">>)>>}
ArgumentsOptions == {<<>>, <<Arr(<<Num(2), Num(3)>>)>>, <<Arr(<<Num(2)>>)>>}
TimestampOptions ==
  {<<>>, <<Num(Now - Window)>>, <<Str(Decimal(Now - Window - 1))>>, <<Str(<<"x">>)>>}
SignOptions == {"absent", "number", "signed", "wrong secret"}

Field(key, option) == IF option = <<>> THEN <<>> ELSE <<<<key, option[1]>>>>

\* The body a client sends: its fields, and the sign it computed.
MakeBody(id, arguments, timestamp, sign) ==
  LET fields == Field("id", id) \o Field("arguments", arguments)
                  \o Field("timestamp", timestamp)
  IN CASE sign = "absent" -> fields
       [] sign = "number" -> fields \o <<<<"sign", Num(1)>>>>
       [] sign = "signed" -> fields \o <<<<"sign", Str(Signature(Secret, fields))>>>>
       [] sign = "wrong secret" ->
            fields \o <<<<"sign", Str(Signature(WrongSecret, fields))>>>>

\* A well-formed body: id 42, arguments [2, 3], a timestamp at the edge of
\* the window.
BaseId == <<Num(42)>>
BaseArguments == <<Arr(<<Num(2), Num(3)>>)>>
BaseTimestamp == <<Num(Now - Window)>>

\* Correctly signed bodies: every combination of the fields.
SignedBodies ==
  { MakeBody(id, arguments, timestamp, "signed") :
      id \in IdOptions, arguments \in ArgumentsOptions, timestamp \in TimestampOptions }

\* Bodies whose signature fails: the well-formed fields, or one field of
\* them changed.
UnsignedBodies ==
  { MakeBody(id, BaseArguments, BaseTimestamp, sign) :
      id \in IdOptions, sign \in SignOptions \ {"signed"} }
    \cup { MakeBody(BaseId, arguments, BaseTimestamp, sign) :
             arguments \in ArgumentsOptions, sign \in SignOptions \ {"signed"} }
    \cup { MakeBody(BaseId, BaseArguments, timestamp, sign) :
             timestamp \in TimestampOptions, sign \in SignOptions \ {"signed"} }

\* The bodies of the requests the model lets wait for the lock or for a
\* promise; the other requests are modelled when they complete at once.
ConcurrentBodies == { MakeBody(BaseId, BaseArguments, BaseTimestamp, "signed") }

Request(verb, nanorpcs, method, body) ==
  [verb |-> verb, nanorpcs |-> nanorpcs, method |-> method, body |-> body]

\* POST /nanorpcs/{method} with every body; GET /nanorpcs/add and POST /other
\* with the well-formed fields under every kind of sign.
Requests ==
  { Request("POST", TRUE, m, b) : m \in MethodNames, b \in SignedBodies }
    \cup { Request("POST", TRUE, "add", b) : b \in UnsignedBodies }
    \cup { Request("GET", TRUE, "add", MakeBody(BaseId, BaseArguments, BaseTimestamp, sign)) :
             sign \in SignOptions }
    \cup { Request("POST", FALSE, "", MakeBody(BaseId, BaseArguments, BaseTimestamp, sign)) :
             sign \in SignOptions }

\* The registrations an embedder makes.
Registrations ==
  { <<"add", "add">>, <<"add", "boom">>, <<"slow", "slow">>, <<"slow", "add">>,
    <<"toString", "add">> }

(***************************************************************************)
(* The state.                                                              *)
(***************************************************************************)
VARIABLES
  methods,      \* this.methods: the own properties of the registry
  validators,   \* the methods this.validators has a schema for
  queued,       \* the constructor's queued flag
  running,      \* the requests whose handler was called and has not settled
  locked,       \* the serializer's lock is held
  waiters,      \* the requests waiting for the lock, in the order they asked
  last          \* what the latest step completed: an exchange or an on() call

vars == <<methods, validators, queued, running, locked, waiters, last>>

\* A server that keeps a request pending after it was served.
RemoveNone(seq, i) == seq

\* The pending requests once the i-th has been served.
RemoveAt(seq, i) == SubSeq(seq, 1, i - 1) \o SubSeq(seq, i + 1, Len(seq))

\* A request in flight; one of them at a time is tracked through its life.
Entry(req, rpc, func, stages, tracked) ==
  [req |-> req, rpc |-> rpc, func |-> func, stages |-> stages, tracked |-> tracked]

Tracking ==
  \/ \E i \in 1..Len(running) : running[i].tracked
  \/ \E i \in 1..Len(waiters) : waiters[i].tracked

\* A completed exchange: the request, the stages it passed, the handler
\* calls made for it, what the handler threw or rejected with (<<>> when it
\* did not fail) and the reply sent.
Exchange(req, stages, calls, failure, reply, tracked) ==
  [kind |-> "exchange", req |-> req, stages |-> stages, calls |-> calls,
   failure |-> failure, reply |-> reply, tracked |-> tracked]

\* The user function call the wrapper makes for a handler.
CallOf(func, rpc) ==
  [func |-> func, args |-> IF func \in UserFuncs THEN WrapperArgs(rpc.params) ELSE <<>>]

\* The exchange of a request whose handler call ended with outcome.
Completed(e, outcome) ==
  Exchange(e.req, Append(e.stages, "invoke"), <<CallOf(e.func, e.rpc)>>,
           outcome.thrown, HandlerReply(e.rpc.id, outcome), e.tracked)

\* A fresh server, queued or not, whose embedder declared a schema for add.
Init ==
  /\ methods = [m \in MethodNames |-> NoFunc]
  /\ validators = {"add"}
  /\ queued \in BOOLEAN
  /\ running = <<>>
  /\ locked = FALSE
  /\ waiters = <<>>
  /\ last = <<>>

\* The completed exchange or call has been observed.
Forget ==
  /\ last /= <<>>
  /\ last' = <<>>
  /\ UNCHANGED <<methods, validators, queued, running, locked, waiters>>

(***************************************************************************)
(* on(method, func)                                                        *)
(***************************************************************************)
DuplicateMethod == -1

On(method, func) ==
  /\ last = <<>>
  /\ IF In(method, methods)
     THEN /\ last' = <<[kind |-> "on", method |-> method, func |-> func,
                        threw |-> TRUE, code |-> DuplicateMethod]>>
          /\ UNCHANGED methods
     ELSE /\ methods' = [methods EXCEPT ![method] = func]
          /\ last' = <<[kind |-> "on", method |-> method, func |-> func,
                        threw |-> FALSE, code |-> 0]>>
  /\ UNCHANGED <<validators, queued, running, locked, waiters>>

(***************************************************************************)
(* The Execution Serializer: one lock, held while a handler call of a      *)
(* queued server runs.                                                     *)
(***************************************************************************)
\* A serializer that lets every request take the lock at once.
MustWaitNever(q, l, w) == FALSE

\* The lock cannot be taken at once: the request queues behind the others.
MustWait(q, l, w) == q /\ (l \/ w /= <<>>)

\* A serializer that keeps the lock when the handler call failed.
ReleasedOnSuccessOnly(outcome) == outcome.kind = "throw"

\* The lock once the handler call that held it has ended with outcome,
\* returning or failing: it is free.
Released(outcome) == FALSE

\* A route that replies with whatever the handler returned, promise or not.
AwaitedNever(now) == FALSE

\* isPromise(result): the reply has to wait for the promise to settle.
Awaited(now) == now.kind = "promise"

\* A serializer that hands the lock to the latest waiter.
NextWaiterLast(w) == Len(w)

\* The waiter the lock is handed to: its place in the queue.
NextWaiter(w) == 1

\* A server whose lock spans the whole route: while the lock is busy a
\* request waits for it before it is validated.
ReceiveUnderLock(req) ==
  /\ last = <<>>
  /\ LET r == Pipeline(req, methods, validators)
     IN IF r.reply /= <<>> /\ MustWait(queued, locked, waiters)
        THEN /\ Len(running) + Len(waiters) < MaxInFlight
             /\ waiters' = Append(waiters, Entry(req, <<>>, NoFunc, <<"wait">>, FALSE))
             /\ UNCHANGED <<methods, validators, queued, running, locked, last>>
        ELSE IF r.reply /= <<>>
        THEN /\ last' = <<Exchange(req, r.stages, <<>>, <<>>, r.reply[1], FALSE)>>
             /\ UNCHANGED <<methods, validators, queued, running, locked, waiters>>
        ELSE LET rpc == r.rpc[1]
                 now == Call(r.func, rpc)
             IN IF MustWait(queued, locked, waiters)
                THEN /\ Len(running) + Len(waiters) < MaxInFlight
                     /\ req.body \in ConcurrentBodies
                     /\ waiters' = Append(waiters,
                            Entry(req, rpc, r.func, Append(r.stages, "wait"), FALSE))
                     /\ UNCHANGED <<methods, validators, queued, running, locked, last>>
                ELSE IF Awaited(now)
                THEN /\ Len(running) + Len(waiters) < MaxInFlight
                     /\ req.body \in ConcurrentBodies
                     /\ running' = Append(running, Entry(req, rpc, r.func, r.stages, FALSE))
                     /\ locked' = queued
                     /\ UNCHANGED <<methods, validators, queued, waiters, last>>
                ELSE /\ last' = <<Completed(Entry(req, rpc, r.func, r.stages, FALSE), now)>>
                     /\ UNCHANGED <<methods, validators, queued, running, locked, waiters>>

(***************************************************************************)
(* A request arrives and runs up to its reply or its handler's promise.    *)
(***************************************************************************)
Receive(req) ==
  /\ last = <<>>
  /\ LET r == Pipeline(req, methods, validators)
     IN IF r.reply /= <<>>
        THEN /\ last' = <<Exchange(req, r.stages, <<>>, <<>>, r.reply[1], FALSE)>>
             /\ UNCHANGED <<methods, validators, queued, running, locked, waiters>>
        ELSE LET rpc == r.rpc[1]
                 now == Call(r.func, rpc)
             IN IF MustWait(queued, locked, waiters)
                THEN /\ Len(running) + Len(waiters) < MaxInFlight
                     /\ req.body \in ConcurrentBodies
                     /\ \E tracked \in {FALSE, ~Tracking} :
                          waiters' = Append(waiters,
                            Entry(req, rpc, r.func, Append(r.stages, "wait"), tracked))
                     /\ UNCHANGED <<methods, validators, queued, running, locked, last>>
                ELSE IF Awaited(now)
                THEN /\ Len(running) + Len(waiters) < MaxInFlight
                     /\ req.body \in ConcurrentBodies
                     /\ \E tracked \in {FALSE, ~Tracking} :
                          running' = Append(running, Entry(req, rpc, r.func, r.stages, tracked))
                     /\ locked' = queued
                     /\ UNCHANGED <<methods, validators, queued, waiters, last>>
                ELSE /\ last' = <<Completed(Entry(req, rpc, r.func, r.stages, FALSE), now)>>
                     /\ UNCHANGED <<methods, validators, queued, running, locked, waiters>>

\* A server that unregisters a method when its handler's promise rejects.
SettleUnregisteringFailed(i) ==
  /\ last = <<>>
  /\ i \in 1..Len(running)
  /\ \E outcome \in Settlements(running[i].rpc) :
       /\ last' = <<Completed(running[i], outcome)>>
       /\ locked' = IF queued THEN Released(outcome) ELSE locked
       /\ methods' = IF outcome.kind = "throw"
                      THEN [methods EXCEPT ![running[i].req.method] = NoFunc]
                      ELSE methods
  /\ running' = RemoveAt(running, i)
  /\ UNCHANGED <<validators, queued, waiters>>

\* The promise of a running handler settles: the reply is sent and the lock
\* released.
Settle(i) ==
  /\ last = <<>>
  /\ i \in 1..Len(running)
  /\ \E outcome \in Settlements(running[i].rpc) :
       /\ last' = <<Completed(running[i], outcome)>>
       /\ locked' = IF queued THEN Released(outcome) ELSE locked
  /\ running' = RemoveAt(running, i)
  /\ UNCHANGED <<methods, validators, queued, waiters>>

\* The free lock is handed to the next waiter, whose handler is called.
Grant ==
  /\ last = <<>>
  /\ waiters /= <<>>
  /\ ~locked
  /\ LET i == NextWaiter(waiters)
         e == waiters[i]
         now == Call(e.func, e.rpc)
     IN /\ waiters' = RemoveAt(waiters, i)
        /\ IF Awaited(now)
           THEN /\ running' = Append(running, e)
                /\ locked' = TRUE
                /\ UNCHANGED last
           ELSE /\ last' = <<Completed(e, now)>>
                /\ locked' = Released(now)
                /\ UNCHANGED running
  /\ UNCHANGED <<methods, validators, queued>>

Next ==
  \/ \E reg \in Registrations : On(reg[1], reg[2])
  \/ \E req \in Requests : Receive(req)
  \/ \E i \in 1..MaxInFlight : Settle(i)
  \/ Grant
  \/ Forget

Spec == Init /\ [][Next]_vars

\* The requests of the fair specification: the well-formed body sent to
\* every method, and one request without sign.
FairRequests ==
  { Request("POST", TRUE, m, MakeBody(BaseId, BaseArguments, BaseTimestamp, "signed")) :
      m \in MethodNames }
    \cup { Request("POST", TRUE, "add",
                   MakeBody(BaseId, BaseArguments, BaseTimestamp, "absent")) }

FairNext ==
  \/ \E reg \in Registrations : On(reg[1], reg[2])
  \/ \E req \in FairRequests : Receive(req)
  \/ \E i \in 1..MaxInFlight : Settle(i)
  \/ Grant
  \/ Forget

\* The event loop runs every callback that is ready, and every handler's
\* promise settles.
FairSpec ==
  /\ Init
  /\ [][FairNext]_vars
  /\ SF_vars(Grant)
  /\ \A i \in 1..MaxInFlight : SF_vars(Settle(i))
  /\ WF_vars(Forget)

(***************************************************************************)
(* The canonical payload as a function of the body: a client signs one     *)
(* body and the signature middleware verifies another body under that      *)
(* sign.                                                                   *)
(***************************************************************************)
\* The number of fields, sign apart, of the bodies compared.
MaxFields == 2

\* The fields of the bodies compared.
CanonFields ==
  { <<"id", Num(42)>>,
    <<"id", Str(<<"4", "2", "\n", "t", "i", "m", "e", "s", "t", "a", "m", "p", "=", "1">>)>>,
    <<"arguments", Arr(<<Num(2), Num(3)>>)>>,
    <<"arguments", Str(<<"2", ",", "3">>)>>,
    <<"timestamp", Num(1)>>,
    <<"e-acute", Num(1)>>, <<"e+acute", Num(1)>> }

\* The bodies compared: up to MaxFields fields with distinct keys, in every
\* order.
CanonBodies ==
  UNION { { [i \in 1..n |-> b[i]] :
              b \in { f \in [1..n -> CanonFields] :
                        \A i, j \in 1..n : i /= j => f[i][1] /= f[j][1] } } :
          n \in 0..MaxFields }

\* The middleware verifies body under the sign a client computed for signed.
Verify(signed, body) ==
  /\ last = <<>>
  /\ LET sign == Str(Signature(Secret, signed))
         gate == SignatureCheck(Secret, Append(body, <<"sign", sign>>))
     IN last' = <<[kind |-> "verify", signed |-> signed, body |-> body,
                   signedPayload |-> Payload(signed), payload |-> Payload(body),
                   accepted |-> gate = <<>>]>>
  /\ UNCHANGED <<methods, validators, queued, running, locked, waiters>>

CanonNext ==
  \/ \E signed \in CanonBodies, body \in CanonBodies : Verify(signed, body)
  \/ Forget

CanonSpec == Init /\ [][CanonNext]_vars

(***************************************************************************)
(* The handler wrapper as a function of rpc.params: the wrapper on()       *)
(* stored for a method is called with an rpc of any params.                *)
(***************************************************************************)
\* The params the wrapper is called with: absent, arrays, and values that
\* are not arrays.
ParamsValues ==
  { Undef, Arr(<<>>), Arr(<<Num(2), Num(3)>>), Arr(<<Num(0)>>),
    Num(0), Num(5), Str(<<>>), Str(<<"a">>), Bool(FALSE), Bool(TRUE) }

\* this.methods[method](rpc) for a method registered through on().
Invoke(method, params) ==
  /\ last = <<>>
  /\ methods[method] \in UserFuncs
  /\ LET rpc == [id |-> Str(<<"1">>), method |-> method, params |-> params,
                 timestamp |-> Num(Now)]
     IN last' = <<[kind |-> "call", method |-> method, params |-> params,
                   call |-> CallOf(methods[method], rpc)]>>
  /\ UNCHANGED <<methods, validators, queued, running, locked, waiters>>

WrapperNext ==
  \/ \E reg \in Registrations : On(reg[1], reg[2])
  \/ \E method \in MethodNames, params \in ParamsValues : Invoke(method, params)
  \/ Forget

WrapperSpec == Init /\ [][WrapperNext]_vars

(***************************************************************************)
(* What the properties speak about.                                        *)
(***************************************************************************)
\* The latest step completed an exchange.
Replied == last /= <<>> /\ last[1].kind = "exchange"

\* The requests in flight.
InFlight ==
  { running[i] : i \in 1..Len(running) } \cup { waiters[i] : i \in 1..Len(waiters) }

\* The body's sign is a string equal to the HMAC over its canonical payload
\* under the server's secret.
SignMatches(body) ==
  /\ Get(body, "sign").t = "str"
  /\ Get(body, "sign").v = Hmac(Secret, Payload(body) \o <<"\n">> \o Secret)

(***************************************************************************)
(* C1  Signature gate: a request whose sign is absent, is not a string or  *)
(* differs from the recomputed HMAC is answered 400 and passes no stage    *)
(* after the signature check; a handler is called, and a request is in     *)
(* flight, only when its signature matched.                                *)
(***************************************************************************)
C1_SignatureGate ==
  /\ Replied /\ ~SignMatches(last[1].req.body) =>
       /\ last[1].reply.status = 400
       /\ last[1].stages = <<"signature">>
       /\ last[1].calls = <<>>
  /\ Replied /\ last[1].calls /= <<>> => SignMatches(last[1].req.body)
  /\ \A e \in InFlight : SignMatches(e.req.body)

\* A request signed under another secret has been answered 400.
C1_Witness ==
  /\ Replied
  /\ Get(last[1].req.body, "sign").t = "str"
  /\ ~SignMatches(last[1].req.body)
  /\ last[1].reply.status = 400
  /\ last[1].req.method = "add" /\ methods["add"] = "add"

\* The request is a POST to /nanorpcs/{method}.
IsRpcPost(req) == req.verb = "POST" /\ req.nanorpcs

\* The body's id and arguments are well-formed.
IdParses(body) == Get(body, "id").t \in {"num", "str"}
ArgumentsParse(body) == Get(body, "arguments").t = "arr"

\* The body's timestamp is a number or a numeric string, and its value.
TimestampParses(body) == MatchTimestamp(Get(body, "timestamp")).t = "num"
TimestampOf(body) == MatchTimestamp(Get(body, "timestamp")).v

Abs(x) == IF x < 0 THEN -x ELSE x

Stale(body) == Abs(Now - TimestampOf(body)) > Window

(***************************************************************************)
(* C2  Freshness window: a correctly signed request with well-formed id    *)
(* and arguments whose timestamp parses is answered 425, without a handler *)
(* call, when abs(now - timestamp) > 60000, and is not answered 425 when   *)
(* abs(now - timestamp) <= 60000; a timestamp that is neither a number nor *)
(* a numeric string is answered 400.                                       *)
(***************************************************************************)
C2_Freshness ==
  Replied /\ IsRpcPost(last[1].req) /\ SignMatches(last[1].req.body)
    /\ IdParses(last[1].req.body) /\ ArgumentsParse(last[1].req.body) =>
      LET body == last[1].req.body
      IN /\ TimestampParses(body) /\ Stale(body) =>
              last[1].reply.status = 425 /\ last[1].calls = <<>>
         /\ TimestampParses(body) /\ ~Stale(body) => last[1].reply.status /= 425
         /\ ~TimestampParses(body) => last[1].reply.status = 400

\* This step calls a handler.
HandlerCalled ==
  \/ Len(running') > Len(running)
  \/ /\ running' = running
     /\ last' /= <<>> /\ last'[1].kind = "exchange" /\ last'[1].calls /= <<>>

(***************************************************************************)
(* C3  Serializer mutual exclusion: on a queued server at most one handler *)
(* call is in progress at any time, and no handler is called while         *)
(* another one is suspended on its promise.                                *)
(***************************************************************************)
C3_MutualExclusion ==
  [][queued => Len(running') <= 1 /\ (HandlerCalled => running = <<>>)]_vars

\* A handler of a queued server is suspended while another request waits.
C3_Witness == queued /\ Len(running) = 1 /\ waiters /= <<>>

(***************************************************************************)
(* C4  Serializer FIFO order: on a queued server the queue only grows at   *)
(* its end and shrinks at its head, and a handler is called only when no   *)
(* other call is in progress and either nobody waits or the called one is  *)
(* the request that asked for the lock first.                              *)
(***************************************************************************)
C4_Fifo ==
  [][queued =>
       /\ \/ waiters' = waiters
          \/ waiters /= <<>> /\ waiters' = Tail(waiters)
          \/ Len(waiters') = Len(waiters) + 1
               /\ SubSeq(waiters', 1, Len(waiters)) = waiters
       /\ HandlerCalled =>
            /\ running = <<>>
            /\ IF waiters = <<>> THEN waiters' = <<>> ELSE waiters' = Tail(waiters)]_vars

\* A request that waited for the lock runs its handler while a different,
\* later request still waits.
C4_Witness ==
  /\ queued
  /\ Len(running) = 1
  /\ running[1].stages[Len(running[1].stages)] = "wait"
  /\ waiters /= <<>>
  /\ waiters[1].req /= running[1].req

\* The tracked request waits for the lock; it has been answered after its
\* handler was called.
TrackedWaiting == \E i \in 1..Len(waiters) : waiters[i].tracked
TrackedReplied == Replied /\ last[1].tracked /\ last[1].calls /= <<>>

(***************************************************************************)
(* C5  Serializer guaranteed release: on a queued server the lock is free  *)
(* whenever no handler call is in progress, whether the last call returned *)
(* or failed, and (every handler's promise settling) every request that    *)
(* waits for the lock is eventually answered after its handler was called. *)
(***************************************************************************)
C5_Release ==
  /\ [](queued /\ running = <<>> => ~locked)
  /\ TrackedWaiting ~> TrackedReplied

\* A request waits for the lock right after the call that held it failed.
C5_Witness ==
  /\ queued
  /\ Replied /\ last[1].reply.status = 417 /\ last[1].calls /= <<>>
  /\ running = <<>> /\ ~locked
  /\ TrackedWaiting

\* The id a reply carries: <<id>>, or <<>> when it carries none.
ReplyId(reply) == IF reply.data /= <<>> THEN <<reply.data[1].id>> ELSE <<>>

\* The normalized inbound id: a number as its decimal string, a string as
\* it is, the empty string when the id does not parse.
NormalizedId(body) ==
  CASE Get(body, "id").t = "num" -> Str(Decimal(Get(body, "id").v))
    [] Get(body, "id").t = "str" -> Get(body, "id")
    [] OTHER -> Str(<<>>)

(***************************************************************************)
(* C6  Id echo: every reply, success or error, carries the normalized      *)
(* inbound id, and the empty string when the id did not parse.             *)
(***************************************************************************)
C6_IdEcho ==
  Replied => ReplyId(last[1].reply) = <<NormalizedId(last[1].req.body)>>

(***************************************************************************)
(* C7  Registration uniqueness: on(name, h) fails with DuplicateMethod     *)
(* exactly when name was registered by an earlier successful on(); a       *)
(* failing on() leaves the registry unchanged and a succeeding one binds   *)
(* that name only.                                                         *)
(***************************************************************************)
C7_RegistrationUniqueness ==
  [][last' /= <<>> /\ last'[1].kind = "on" =>
       /\ last'[1].threw <=> methods[last'[1].method] /= NoFunc
       /\ last'[1].threw => last'[1].code = DuplicateMethod /\ methods' = methods
       /\ ~last'[1].threw =>
            methods' = [methods EXCEPT ![last'[1].method] = last'[1].func]]_vars

\* The schema declared for the request's method, if any, accepts it.
SchemaPasses(req) ==
  req.method \in validators => Len(Get(req.body, "arguments").v) = 2

\* A correctly signed POST to /nanorpcs/{method} with well-formed id,
\* arguments and timestamp that no schema rejects.
WellFormed(req) ==
  /\ IsRpcPost(req)
  /\ SignMatches(req.body)
  /\ IdParses(req.body) /\ ArgumentsParse(req.body) /\ TimestampParses(req.body)
  /\ SchemaPasses(req)

(***************************************************************************)
(* C8  Unknown method: a well-formed request for a method name that was    *)
(* never registered through on() is answered 405 and no function is called *)
(* for it.                                                                 *)
(***************************************************************************)
C8_UnknownMethod ==
  Replied /\ WellFormed(last[1].req) /\ methods[last[1].req.method] = NoFunc =>
    last[1].reply.status = 405 /\ last[1].calls = <<>>

\* The standard error envelope of the 404 fallback.
IsNotFound(reply) ==
  /\ reply.status = 404 /\ reply.code = 404
  /\ reply.name = "Not Found" /\ reply.message = "Page Not Found"
  /\ reply.data = <<>>

(***************************************************************************)
(* C9 as stated: every request whose verb/path is not                      *)
(* POST /nanorpcs/{method} is answered 404 in the standard error envelope. *)
(***************************************************************************)
C9_UnknownRoute ==
  Replied /\ ~IsRpcPost(last[1].req) => IsNotFound(last[1].reply)

(***************************************************************************)
(* C9 as amended: a request whose verb/path is not POST /nanorpcs/{method} *)
(* is answered 404 in the standard error envelope when its signature       *)
(* matches, and 400 by the signature gate when it does not; no handler is  *)
(* called for it.                                                          *)
(***************************************************************************)
C9_UnknownRouteSigned ==
  Replied /\ ~IsRpcPost(last[1].req) =>
    /\ last[1].calls = <<>>
    /\ IF SignMatches(last[1].req.body)
       THEN IsNotFound(last[1].reply)
       ELSE last[1].reply.status = 400

\* A correctly signed GET /nanorpcs/add has been answered 404.
C9_Witness ==
  /\ Replied
  /\ last[1].req.verb = "GET" /\ last[1].req.nanorpcs
  /\ SignMatches(last[1].req.body)
  /\ IsNotFound(last[1].reply)
  /\ methods["add"] = "add"

C11_GenericFailure ==
  Replied /\ last[1].failure /= <<>> /\ last[1].failure[1].code = <<>> =>
    LET error == last[1].failure[1]
        reply == last[1].reply
    IN /\ reply.status = 417 /\ reply.code = 417
       /\ reply.name = "Expectation Failed"
       /\ reply.data = <<>>
       /\ error.t = "string" => reply.message = error.string
       /\ error.t /= "string" /\ error.isError => reply.message = error.message
       /\ error.t /= "string" /\ ~error.isError => reply.message = error.string

\* The promise of slow rejected with an Error and 417 "failed" was sent.
C11_Witness ==
  /\ Replied
  /\ last[1].failure = <<ThrownError>>
  /\ last[1].reply.status = 417
  /\ last[1].reply.message = "failed"
  /\ methods[last[1].req.method] = "slow"

(***************************************************************************)
(* C12  Structured handler failure: when the handler throws or rejects     *)
(* with a failure that carries a code and a message, the reply has HTTP    *)
(* status 417, its embedded code is the failure's own code and its message *)
(* is the failure's message.                                               *)
(***************************************************************************)
C12_StructuredFailure ==
  Replied /\ last[1].failure /= <<>> /\ last[1].failure[1].code /= <<>> =>
    /\ last[1].reply.status = 417
    /\ last[1].reply.code = last[1].failure[1].code[1]
    /\ last[1].reply.message = last[1].failure[1].message

\* The HTTP statuses of the protocol.
StatusCodes == {200, 400, 404, 405, 406, 417, 425}

(***************************************************************************)
(* C13  Status consistency: every reply has an HTTP status among 200, 400, *)
(* 404, 405, 406, 417 and 425, and the code embedded at the top level of   *)
(* its body equals that HTTP status.                                       *)
(***************************************************************************)
C13_StatusConsistency ==
  Replied => last[1].reply.status \in StatusCodes
               /\ last[1].reply.code = last[1].reply.status

\* A failure that carries the code -1 has been answered with status 417 and
\* embedded code 417.
C13_Witness ==
  /\ Replied
  /\ last[1].failure /= <<>> /\ last[1].failure[1].code = <<-1>>
  /\ last[1].reply.status = 417 /\ last[1].reply.code = 417

\* The latest step verified a body under the sign of another one.
Verified == last /= <<>> /\ last[1].kind = "verify"

\* The fields of a body, as a set.
FieldSet(body) == { body[i] : i \in 1..Len(body) }

(***************************************************************************)
(* C14  Canonicalization is order-independent: a body and any permutation  *)
(* of its top-level fields have the same canonical payload, so the sign    *)
(* computed for one is accepted for the other.                             *)
(***************************************************************************)
C14_OrderIndependent ==
  Verified /\ FieldSet(last[1].body) = FieldSet(last[1].signed) =>
    /\ last[1].payload = last[1].signedPayload
    /\ last[1].accepted

(***************************************************************************)
(* C20  The canonical payload binds the body: two bodies whose sets of     *)
(* (key, value) fields, sign apart, differ have different canonical        *)
(* payloads, so the sign computed for one is never accepted for the other. *)
(***************************************************************************)
C20_PayloadBindsBody ==
  Verified /\ FieldSet(last[1].body) /= FieldSet(last[1].signed) =>
    /\ last[1].payload /= last[1].signedPayload
    /\ ~last[1].accepted

\* The ways a call of func can end.
Outcomes(func, rpc) ==
  IF Call(func, rpc).kind = "promise" THEN Settlements(rpc) ELSE {Call(func, rpc)}

\* The rpc the route builds from a body.
RpcOf(req) ==
  [id |-> MatchId(Get(req.body, "id")), method |-> req.method,
   params |-> MatchArray(Get(req.body, "arguments")),
   timestamp |-> MatchTimestamp(Get(req.body, "timestamp"))]

(***************************************************************************)
(* C15  Failure isolation: only on() changes the Method Registry, so no    *)
(* request, rejected or failing, changes it (the secret is a constant of   *)
(* the server); and the reply to a request is determined by the request,   *)
(* the registry and the outcome of its own handler call alone, whatever    *)
(* other requests were rejected, failed or are in flight.                  *)
(***************************************************************************)
C15_FailureIsolation ==
  [][/\ last' = <<>> \/ last'[1].kind /= "on" =>
          methods' = methods /\ validators' = validators
     /\ last' /= <<>> /\ last'[1].kind = "exchange" =>
          LET x == last'[1]
          IN IF x.calls = <<>>
             THEN <<x.reply>> = Pipeline(x.req, methods, validators).reply
             ELSE x.reply \in
                    { HandlerReply(RpcOf(x.req).id, o) :
                        o \in Outcomes(x.calls[1].func, RpcOf(x.req)) }]_vars

\* On a server that is not queued a handler has failed while the handler of
\* another request is still suspended.
C15_Witness ==
  /\ ~queued
  /\ Replied /\ last[1].failure /= <<>> /\ last[1].reply.status = 417
  /\ running /= <<>>

\* The status of the first stage that rejects a POST to /nanorpcs/{method}
\* in the order signature, envelope (id, params, timestamp), freshness,
\* schema, lookup; 0 when every stage accepts it.
FirstRejection(req) ==
  IF ~SignMatches(req.body) THEN 400
  ELSE IF ~IdParses(req.body) \/ ~ArgumentsParse(req.body) \/ ~TimestampParses(req.body)
  THEN 400
  ELSE IF Stale(req.body) THEN 425
  ELSE IF ~SchemaPasses(req) THEN 406
  ELSE IF methods[req.method] = NoFunc THEN 405
  ELSE 0

(***************************************************************************)
(* C16  Total check order: a POST to /nanorpcs/{method} is checked in the  *)
(* order signature, envelope parsing (id, params, timestamp), freshness,   *)
(* schema validation, method lookup, handler invocation; its reply has the *)
(* status of the first stage that rejects it and then no handler is        *)
(* called; a handler is called, and the reply is 200 or 417, only when     *)
(* every stage accepted it.                                                *)
(***************************************************************************)
C16_CheckOrder ==
  Replied /\ IsRpcPost(last[1].req) =>
    IF FirstRejection(last[1].req) /= 0
    THEN last[1].reply.status = FirstRejection(last[1].req) /\ last[1].calls = <<>>
    ELSE last[1].calls /= <<>> /\ last[1].reply.status \in {200, 417}

(***************************************************************************)
(* C17  Validation is not serialized: on a queued server a request that    *)
(* the signature, envelope, schema or lookup stage rejects is answered in  *)
(* the step that receives it, whoever holds the lock: it never waits for   *)
(* the lock, never takes it and leaves the queue as it is; only requests   *)
(* that passed every one of these stages wait for the lock or hold it.     *)
(***************************************************************************)
C17_ValidationNotSerialized ==
  /\ [][queued /\ last' /= <<>> /\ last'[1].kind = "exchange" /\ last'[1].calls = <<>> =>
          /\ locked' = locked /\ waiters' = waiters /\ running' = running
          /\ \A i \in 1..Len(last'[1].stages) : last'[1].stages[i] /= "wait"]_vars
  /\ [](\A e \in InFlight : WellFormed(e.req) /\ e.func /= NoFunc)

\* A request the schema rejects has been answered 406 while a handler holds
\* the lock and another request waits for it.
C17_Witness ==
  /\ queued /\ locked /\ running /= <<>> /\ waiters /= <<>>
  /\ Replied /\ last[1].calls = <<>> /\ last[1].reply.status = 406

(***************************************************************************)
(* C18  Params normalization in the handler wrapper: the user function is  *)
(* called with the elements of params as its arguments when params is an   *)
(* array, with no argument when params is absent, and with params as its   *)
(* one argument when params is any other value, 0, false and the empty     *)
(* string included.                                                        *)
(***************************************************************************)
C18_ParamsNormalization ==
  last /= <<>> /\ last[1].kind = "call" =>
    LET params == last[1].params
        args == last[1].call.args
    IN /\ last[1].call.func = methods[last[1].method]
       /\ params.t = "arr" => args = params.v
       /\ params.t = "undef" => args = <<>>
       /\ params.t \notin {"arr", "undef"} => Len(args) = 1 /\ args[1] = params

\* The request of an exchange was in flight before it was answered: it
\* waited for the lock, or its handler returned a promise.
WasInFlight(x) ==
  \/ \E i \in 1..Len(x.stages) : x.stages[i] = "wait"
  \/ x.calls /= <<>> /\ x.calls[1].func = "slow"

\* seq without its i-th element.
Without(seq, i) == [j \in 1..(Len(seq) - 1) |-> IF j < i THEN seq[j] ELSE seq[j + 1]]

(***************************************************************************)
(* C19  Exactly one reply: in every interleaving a request is answered     *)
(* once.  A request leaves the requests in flight only in the step that    *)
(* sends its reply, and that step removes it, so no second reply follows;  *)
(* a request answered on arrival is never put in flight; the handler is    *)
(* called at most once for a request: when it arrives or when it is handed *)
(* the lock, never again when its promise settles.                         *)
(***************************************************************************)
C19_ExactlyOneReply ==
  [][IF last' /= <<>> /\ last'[1].kind = "exchange"
     THEN LET x == last'[1]
          IN /\ Len(x.calls) <= 1
             /\ Len(SelectSeq(x.stages, LAMBDA st : st = "invoke")) = Len(x.calls)
             /\ IF WasInFlight(x)
                THEN \/ /\ waiters' = waiters
                        /\ \E i \in 1..Len(running) :
                             running[i].req = x.req /\ running' = Without(running, i)
                     \/ /\ running' = running
                        /\ waiters /= <<>> /\ waiters[1].req = x.req
                        /\ waiters' = Tail(waiters)
                ELSE running' = running /\ waiters' = waiters
     ELSE \/ running' = running /\ waiters' = waiters
          \/ running' = running /\ Len(waiters') = Len(waiters) + 1
               /\ SubSeq(waiters', 1, Len(waiters)) = waiters
          \/ waiters' = waiters /\ Len(running') = Len(running) + 1
               /\ SubSeq(running', 1, Len(running)) = running
          \/ waiters /= <<>> /\ waiters' = Tail(waiters)
               /\ running' = Append(running, waiters[1])]_vars

\* On a server that is not queued the tracked request has been answered 200
\* while the handlers of two other requests are still suspended.
C19_Witness ==
  /\ ~queued
  /\ Replied /\ last[1].tracked /\ last[1].reply.status = 200
  /\ Len(last[1].calls) = 1
  /\ Len(running) = 2

====
